---- MODULE Spec2Model ----
(***************************************************************************)
(* A model of GPTtrace.py: the command normaliser make_executable_command, *)
(* the stream consumer generate_result, the fenced-block extractor         *)
(* extract_code_blocks and the mode dispatch of main.                      *)
(*                                                                         *)
(* Python strings that are inspected character by character are sequences  *)
(* of characters, each character a TLA+ string.  A Python value that is a  *)
(* str or None (a token, a session identifier) is Str(s) or None below, so *)
(* that None differs from every str, the str 'None' included.              *)
(***************************************************************************)
EXTENDS Integers, Sequences, FiniteSets, TLC

VARIABLES
  pc,                \* position of the running function
  command, parsed,   \* make_executable_command: argument and return value
  doc, code_blocks,  \* extract_code_blocks: parsed document and return value
  print_out, prev_text, buf, received_session, ret,
                     \* generate_result: echo flag, locals and return value
  n_events, monotone, last_event, fragments,
                     \* history of the stream: events consumed, whether each
                     \* extended the previous one, the last one, the
                     \* fragments computed
  stdout,            \* what has been printed
  args, environ,     \* main: the parsed command line, the environment
  access_token, conv_uuid, chatbot, session, listing, prompts, next_file,
                     \* main: locals (listing is what os.listdir returned,
                     \* next_file the position of the loop over prompts)
  asks, shell, files \* the calls of bot.ask and of os.system, the files written

cmdVars  == <<command, parsed>>
docVars  == <<doc, code_blocks>>
genVars  == <<print_out, prev_text, buf, received_session, ret,
              n_events, monotone, last_event, fragments>>
mainVars == <<args, environ, access_token, conv_uuid, chatbot, session,
              listing, prompts, next_file, asks, shell, files>>
vars == <<pc, cmdVars, docVars, genVars, stdout, mainVars>>

\* Python's None, and the str s, where a value may be either.
None   == <<>>
Str(s) == <<s>>

(***************************************************************************)
(* Bounds of the model.                                                    *)
(***************************************************************************)
MaxPieces  == 5   \* pieces an input of make_executable_command is built from
MaxEvents  == 3   \* events one backend stream yields
MaxMsgLen  == 2   \* characters of a cumulative message
MaxBlocks  == 3   \* top-level blocks of a parsed document
MaxPrompts == 3   \* files in the prompts directory

(***************************************************************************)
(* Strings                                                                 *)
(***************************************************************************)
NL       == "\n"
TAB      == "\t"
CR       == "\r"
\* The backtick character (a TLA+ string cannot hold it).
BACKTICK == "BACKTICK"
\* str.strip() without arguments removes the characters for which
\* str.isspace() holds.  The characters TLA+ has no escape for are written
\* by their code point.
Whitespace ==
  { " ", TAB, NL, "U+000B", "\f", CR, "U+001C", "U+001D", "U+001E", "U+001F",
    "U+0085", "U+00A0", "U+1680", "U+2000", "U+2001", "U+2002", "U+2003",
    "U+2004", "U+2005", "U+2006", "U+2007", "U+2008", "U+2009", "U+200A",
    "U+2028", "U+2029", "U+202F", "U+205F", "U+3000" }

Sentinel == <<"U", "s", "e", "r", ":", " ">>

startswith(s, c) == Len(s) > 0 /\ s[1] = c
endswith(s, c)   == Len(s) > 0 /\ s[Len(s)] = c

DropFirst(s) == SubSeq(s, 2, Len(s))
DropLast(s)  == SubSeq(s, 1, Len(s) - 1)

RECURSIVE lstrip(_)
lstrip(s) == IF Len(s) > 0 /\ s[1] \in Whitespace THEN lstrip(DropFirst(s)) ELSE s

RECURSIVE rstrip(_)
rstrip(s) == IF Len(s) > 0 /\ s[Len(s)] \in Whitespace THEN rstrip(DropLast(s)) ELSE s

strip(s) == rstrip(lstrip(s))

\* The positions at which sep occurs in s.
Occurrences(s, sep) ==
  { i \in 1..(Len(s) - Len(sep) + 1) : SubSeq(s, i, i + Len(sep) - 1) = sep }

Min(S) == CHOOSE x \in S : \A y \in S : x <= y
Max(S) == CHOOSE x \in S : \A y \in S : x >= y

\* s.rsplit(sep, 1)[0]: the part of s before the LAST occurrence of sep.
SplitLast(s, sep) ==
  IF Occurrences(s, sep) = {} THEN s
  ELSE SubSeq(s, 1, Max(Occurrences(s, sep)) - 1)

\* s.split(sep)[0]: the part of s before the first occurrence of sep, s itself
\* when sep does not occur.
SplitFirst(s, sep) ==
  IF Occurrences(s, sep) = {} THEN s
  ELSE SubSeq(s, 1, Min(Occurrences(s, sep)) - 1)

\* command[1:] while command starts with a backtick (a strip of all leading backticks).
RECURSIVE DropLeadingBackticks(_)
DropLeadingBackticks(s) ==
  IF startswith(s, BACKTICK) THEN DropLeadingBackticks(DropFirst(s)) ELSE s

\* if command.startswith(BACKTICK): command = command[1:]
DropLeadingBacktick(s) == IF startswith(s, BACKTICK) THEN DropFirst(s) ELSE s

\* if command.endswith(BACKTICK): command = command[:-1]
DropTrailingBacktick(s) == IF endswith(s, BACKTICK) THEN DropLast(s) ELSE s

\* if command.startswith("\n"): command = command[1:]
DropLeadingNewline(s) == IF startswith(s, NL) THEN DropFirst(s) ELSE s

\* if command.endswith("\n"): command = command[:-1]
DropTrailingNewline(s) == IF endswith(s, NL) THEN DropLast(s) ELSE s

make_executable_command(cmd) ==
  LET c1 == DropLeadingNewline(cmd)
      c2 == DropTrailingNewline(c1)
      c3 == DropLeadingBacktick(c2)
      c4 == DropTrailingBacktick(c3)
      c5 == strip(c4)
  IN  SplitFirst(c5, Sentinel)

(***************************************************************************)
(* Inputs of make_executable_command: concatenations of at most MaxPieces  *)
(* pieces.  "User:" followed by " " makes the sentinel.                    *)
(***************************************************************************)
Pieces == { <<NL>>, <<BACKTICK>>, <<" ">>, <<CR>>, <<"U+00A0">>, <<"a">>,
            <<"U", "s", "e", "r", ":">> }

RECURSIVE Concat(_)
Concat(ss) == IF ss = <<>> THEN <<>> ELSE Head(ss) \o Concat(Tail(ss))

SeqsUpTo(S, n) == UNION { [1..k -> S] : k \in 0..n }

Commands == { Concat(ps) : ps \in SeqsUpTo(Pieces, MaxPieces) }

\* The variables of the other functions, at rest.
CmdIdle  == command = <<>> /\ parsed = <<>>
DocIdle  == doc = <<>> /\ code_blocks = <<>>
GenIdle  ==
  /\ print_out = FALSE /\ prev_text = <<>> /\ buf = <<>>
  /\ received_session = Str("") /\ ret = [text |-> <<>>, session |-> Str("")]
  /\ n_events = 0 /\ monotone = TRUE /\ fragments = <<>>
  /\ last_event = [message |-> <<>>, conversation_id |-> Str("")]
MainLocalsIdle ==
  /\ args = [mode |-> "none"] /\ environ = [token |-> None, uuid |-> None]
  /\ access_token = None /\ conv_uuid = None
  /\ chatbot = FALSE /\ session = None
  /\ listing = <<>> /\ prompts = <<>> /\ next_file = 1
  /\ shell = <<>> /\ files = <<>>
MainIdle == MainLocalsIdle /\ asks = <<>>

InitCmd ==
  /\ pc = "cmd_call"
  /\ command \in Commands
  /\ parsed = <<>>
  /\ DocIdle /\ GenIdle /\ MainIdle /\ stdout = <<>>

MakeExecutableCommand ==
  /\ pc = "cmd_call"
  /\ parsed' = make_executable_command(command)
  /\ pc' = "cmd_done"
  /\ UNCHANGED <<command, docVars, genVars, stdout, mainVars>>

NextCmd == MakeExecutableCommand

SpecCmd == InitCmd /\ [][NextCmd]_vars

(***************************************************************************)
(* Properties of make_executable_command                                   *)
(***************************************************************************)
HasSentinel(s) == Occurrences(s, Sentinel) # {}

Count(s, c) == Cardinality({ i \in 1..Len(s) : s[i] = c })

\* The number of characters c at the start, and at the end, of s.
LeadRun(s, c) ==
  IF \A i \in 1..Len(s) : s[i] = c THEN Len(s)
  ELSE Min({ i \in 1..Len(s) : s[i] # c }) - 1
TrailRun(s, c) ==
  IF \A i \in 1..Len(s) : s[i] = c THEN Len(s)
  ELSE Len(s) - Max({ i \in 1..Len(s) : s[i] # c })

\* s holds a character that is neither whitespace nor a backtick.
HasText(s) == \E i \in 1..Len(s) : s[i] \notin Whitespace \cup {BACKTICK}

\* s neither begins nor ends with a newline, a backtick or whitespace.
NoSurroundingNoise(s) ==
  /\ ~ (Len(s) > 0 /\ s[1] \in Whitespace \cup {BACKTICK})
  /\ ~ (Len(s) > 0 /\ s[Len(s)] \in Whitespace \cup {BACKTICK})

\* C2: every result has no leading or trailing whitespace, neither starts
\* nor ends with a backtick, does not start with a newline and does not
\* contain the sentinel.  It is stated for the inputs without a backtick,
\* where the removal of one backtick per side plays no part.
C2_ExtractedCommandInvariant ==
  (pc = "cmd_done" /\ Count(command, BACKTICK) = 0) =>
    /\ ~ (Len(parsed) > 0 /\ parsed[1] \in Whitespace)
    /\ ~ (Len(parsed) > 0 /\ parsed[Len(parsed)] \in Whitespace)
    /\ ~ startswith(parsed, BACKTICK)
    /\ ~ endswith(parsed, BACKTICK)
    /\ ~ startswith(parsed, NL)
    /\ ~ HasSentinel(parsed)

\* C5 as claimed: an input without surrounding noise is returned unchanged.
C5_CleanInputUnchanged ==
  (pc = "cmd_done" /\ NoSurroundingNoise(command)) => parsed = command

\* C5 as amended: for an input without surrounding noise the result is the
\* input cut at its first sentinel: the input itself when it holds no
\* sentinel, and otherwise the sentinel-free prefix that the sentinel follows.
C5_CleanInputCutAtSentinel ==
  (pc = "cmd_done" /\ NoSurroundingNoise(command)) =>
    /\ Len(parsed) <= Len(command)
    /\ parsed = SubSeq(command, 1, Len(parsed))
    /\ ~ HasSentinel(parsed)
    /\ \/ parsed = command
       \/ SubSeq(command, Len(parsed) + 1, Len(parsed) + Len(Sentinel)) = Sentinel
    /\ ~ HasSentinel(command) => parsed = command

\* A clean input holding text and then the sentinel, normalised.
C5_Witness ==
  /\ pc = "cmd_done"
  /\ NoSurroundingNoise(command)
  /\ HasSentinel(command)
  /\ Len(parsed) > 0
  /\ parsed # command

\* C8 as claimed: of several leading (trailing) newlines or backticks exactly
\* one is removed and the others are still at that end of the result.  It is
\* stated for the inputs where the runs are told apart from the rest: those
\* that hold other text and no sentinel.
C8_OnePerSideEachKind ==
  (pc = "cmd_done" /\ HasText(command) /\ ~ HasSentinel(command)) =>
    \A c \in {NL, BACKTICK} :
      /\ LeadRun(command, c) >= 2 => LeadRun(parsed, c) = LeadRun(command, c) - 1
      /\ TrailRun(command, c) >= 2 => TrailRun(parsed, c) = TrailRun(command, c) - 1

\* C8 as amended: only backticks are removed one per side.  Of several
\* leading backticks of an input that holds other text exactly one is
\* removed; so it is for several trailing backticks when the input holds no
\* sentinel; a sentinel-free input loses at most two backticks.  Newlines at
\* the ends do not survive: the result never starts with one, and never
\* ends with one when the input holds no sentinel.
C8_OneBacktickPerSide ==
  pc = "cmd_done" =>
    /\ (HasText(command) /\ LeadRun(command, BACKTICK) >= 2) =>
         LeadRun(parsed, BACKTICK) = LeadRun(command, BACKTICK) - 1
    /\ (HasText(command) /\ ~ HasSentinel(command)
          /\ TrailRun(command, BACKTICK) >= 2) =>
         TrailRun(parsed, BACKTICK) = TrailRun(command, BACKTICK) - 1
    /\ ~ HasSentinel(command) =>
         Count(parsed, BACKTICK) >= Count(command, BACKTICK) - 2
    /\ ~ startswith(parsed, NL)
    /\ ~ HasSentinel(command) => ~ endswith(parsed, NL)

\* An input with two backticks on each side of its text, normalised.
C8_Witness ==
  /\ pc = "cmd_done"
  /\ HasText(command)
  /\ ~ HasSentinel(command)
  /\ LeadRun(command, BACKTICK) >= 2
  /\ TrailRun(command, BACKTICK) >= 2
  /\ startswith(parsed, BACKTICK)
  /\ endswith(parsed, BACKTICK)

(***************************************************************************)
(* generate_result                                                         *)
(*                                                                         *)
(* An event of bot.ask carries the cumulative message and the conversation *)
(* id.  The backend yields the events one at a time and then closes the    *)
(* stream or raises.                                                       *)
(***************************************************************************)
MsgChars == {"a", "b"}
Messages == SeqsUpTo(MsgChars, MaxMsgLen)
ConvIds  == {Str("c1"), Str("c2")}
Events   == [message : Messages, conversation_id : ConvIds]

\* print(message, end="", flush=True): the characters reach stdout at once.
print(out, text) == out \o text

\* The locals with received_session started from the session passed in.
InitialLocals_session(session_arg) ==
  [prev_text |-> <<>>, buf |-> <<>>, received_session |-> session_arg]

\* prev_text = "", buf = StringIO(), received_session = ""
InitialLocals(session_arg) ==
  [prev_text |-> <<>>, buf |-> <<>>, received_session |-> Str("")]

\* data["message"][len(prev_text):]
Fragment(message, prev) == SubSeq(message, Len(prev) + 1, Len(message))

\* The loop body with prev_text never updated.
LoopBody_stale_prev(l, out, data, echo) ==
  LET message == Fragment(data.message, l.prev_text)
  IN  [prev_text        |-> l.prev_text,
       buf              |-> l.buf \o message,
       received_session |-> data.conversation_id,
       out              |-> IF echo THEN print(out, message) ELSE out]

\* The loop body with buf.write under the "if print_out".
LoopBody_write_in_if(l, out, data, echo) ==
  LET message == Fragment(data.message, l.prev_text)
  IN  [prev_text        |-> data.message,
       buf              |-> IF echo THEN l.buf \o message ELSE l.buf,
       received_session |-> data.conversation_id,
       out              |-> IF echo THEN print(out, message) ELSE out]

\* One iteration of "for data in bot.ask(...)": the locals l and stdout out
\* after the event data.
LoopBody(l, out, data, echo) ==
  LET message == Fragment(data.message, l.prev_text)
  IN  [prev_text        |-> data.message,
       buf              |-> l.buf \o message,
       received_session |-> data.conversation_id,
       out              |-> IF echo THEN print(out, message) ELSE out]

\* After the loop: "if print_out: print()".
AfterLoop(out, echo) == IF echo THEN print(out, <<NL>>) ELSE out

\* return buf.getvalue(), received_session
Return(l) == [text |-> l.buf, session |-> l.received_session]

\* What bot.ask was called with, and how the call ended.
Ask(prompt, conversation_id, raised, returned) ==
  [text |-> prompt, conversation_id |-> conversation_id,
   raised |-> raised, returned |-> returned]

\* The locals of the running call.
Locals == [prev_text |-> prev_text, buf |-> buf,
           received_session |-> received_session]

IsPrefix(p, s) == Len(p) <= Len(s) /\ p = SubSeq(s, 1, Len(p))

InitGen ==
  /\ pc = "gen_loop"
  /\ print_out \in BOOLEAN
  /\ \E session_arg \in {None} \cup ConvIds :
       \* bot.ask(text, conversation_id=session)
       /\ asks = << Ask([kind |-> "literal", text |-> <<"text">>],
                        session_arg, FALSE, None) >>
       /\ prev_text = InitialLocals(session_arg).prev_text
       /\ buf = InitialLocals(session_arg).buf
       /\ received_session = InitialLocals(session_arg).received_session
  /\ ret = [text |-> <<>>, session |-> Str("")]
  /\ n_events = 0 /\ monotone = TRUE /\ fragments = <<>>
  /\ last_event = [message |-> <<>>, conversation_id |-> Str("")]
  /\ stdout = <<>>
  /\ CmdIdle /\ DocIdle /\ MainLocalsIdle

\* The backend yields one more event and the loop body runs on it.
GenEvent ==
  /\ pc = "gen_loop"
  /\ n_events < MaxEvents
  /\ \E data \in Events :
       LET r == LoopBody(Locals, stdout, data, print_out)
       IN  /\ prev_text' = r.prev_text
           /\ buf' = r.buf
           /\ received_session' = r.received_session
           /\ stdout' = r.out
           /\ monotone' = (monotone /\ (n_events > 0 => IsPrefix(last_event.message, data.message)))
           /\ fragments' = Append(fragments, Fragment(data.message, last_event.message))
           /\ last_event' = data
  /\ n_events' = n_events + 1
  /\ UNCHANGED <<pc, print_out, ret, cmdVars, docVars, mainVars>>

\* The backend closes the stream: the loop ends and the function returns.
GenReturn ==
  /\ pc = "gen_loop"
  /\ stdout' = AfterLoop(stdout, print_out)
  /\ ret' = Return(Locals)
  /\ pc' = "gen_done"
  /\ UNCHANGED <<print_out, prev_text, buf, received_session, n_events,
                 monotone, last_event, fragments, cmdVars, docVars, mainVars>>

\* The backend raises while streaming: nothing catches it.
GenRaise ==
  /\ pc = "gen_loop"
  /\ pc' = "gen_raised"
  /\ UNCHANGED <<genVars, stdout, cmdVars, docVars, mainVars>>

NextGen == GenEvent \/ GenReturn \/ GenRaise

SpecGen == InitGen /\ [][NextGen]_vars

(***************************************************************************)
(* Properties of generate_result                                           *)
(***************************************************************************)
\* C3: after a non-empty stream in which every cumulative message extends
\* the one before, the returned text is the concatenation of the fragments
\* and is the cumulative message of the final event, and the returned
\* session is the conversation id of the final event.
C3_ReturnsFinalMessageAndSession ==
  (pc = "gen_done" /\ n_events > 0 /\ monotone) =>
    /\ ret.text = Concat(fragments)
    /\ ret.text = last_event.message
    /\ ret.session = last_event.conversation_id

\* A stream of MaxEvents events, each extending the one before, some of them
\* strictly, consumed to its end.
C3_Witness ==
  /\ pc = "gen_done"
  /\ n_events = MaxEvents
  /\ monotone
  /\ Len(fragments[1]) > 0
  /\ Len(fragments[2]) > 0
  /\ ret.text = last_event.message

\* C4: a stream of zero events returns the empty text and the empty session
\* identifier, whatever session was passed in and whatever the echo flag.
C4_EmptyStreamReturnsEmpty ==
  (pc = "gen_done" /\ n_events = 0) =>
    ret = [text |-> <<>>, session |-> Str("")]

\* An empty stream consumed with a session passed in and echo on.
C4_Witness ==
  /\ pc = "gen_done"
  /\ n_events = 0
  /\ asks[1].conversation_id \in ConvIds
  /\ print_out

\* C10: with echo on, the text echoed is the text accumulated after every
\* event (each fragment is out before the next event is consumed), and the
\* return adds only the line end; with echo off nothing is printed; the
\* returned pair is determined by the events alone.
C10_EchoFollowsAccumulation ==
  /\ (print_out /\ pc = "gen_loop") =>
       stdout = buf /\ stdout = Concat(fragments)
  /\ (print_out /\ pc = "gen_done") => stdout = ret.text \o <<NL>>
  /\ ~ print_out => stdout = <<>>
  /\ pc = "gen_done" =>
       /\ ret.text = Concat(fragments)
       /\ ret.session = IF n_events = 0 THEN Str("") ELSE last_event.conversation_id

\* Echo on, two events consumed, the second fragment already echoed while the
\* stream is still open.
C10_Witness ==
  /\ pc = "gen_loop"
  /\ print_out
  /\ n_events = 2
  /\ Len(fragments[2]) > 0
  /\ stdout = fragments[1] \o fragments[2]

(***************************************************************************)
(* extract_code_blocks                                                     *)
(*                                                                         *)
(* The Markdown parser is a library: the model starts from the document    *)
(* it returns, a sequence of top-level blocks.  Every block it builds      *)
(* holds one RawText child, whose children field is the text.              *)
(***************************************************************************)
BlockTypes == {"FencedCode", "CodeBlock", "Paragraph", "Heading"}
Texts      == {"x", "y"}
RawText(t) == [type |-> "RawText", children |-> t]
Blocks     == { [type |-> ty, children |-> << RawText(t) >>] :
                  ty \in BlockTypes, t \in Texts }
Documents  == SeqsUpTo(Blocks, MaxBlocks)

\* A test that takes the indented code block for a fenced one as well.
IsFencedCode_any_code(block) == block.type \in {"FencedCode", "CodeBlock"}

\* type(block) is FencedCode
IsFencedCode(block) == block.type = "FencedCode"

RECURSIVE extract_code_blocks_from(_, _)
extract_code_blocks_from(children, result) ==
  IF children = <<>> THEN result
  ELSE LET block == Head(children)
       IN  extract_code_blocks_from(Tail(children),
             IF IsFencedCode(block)
             THEN Append(result, block.children[1].children)
             ELSE result)

extract_code_blocks(d) == extract_code_blocks_from(d, <<>>)

InitDoc ==
  /\ pc = "doc_call"
  /\ doc \in Documents
  /\ code_blocks = <<>>
  /\ CmdIdle /\ GenIdle /\ MainIdle /\ stdout = <<>>

ExtractCodeBlocks ==
  /\ pc = "doc_call"
  /\ code_blocks' = extract_code_blocks(doc)
  /\ pc' = "doc_done"
  /\ UNCHANGED <<doc, cmdVars, genVars, stdout, mainVars>>

NextDoc == ExtractCodeBlocks

SpecDoc == InitDoc /\ [][NextDoc]_vars

\* The positions of the fenced blocks of the document, and the k-th of them.
FencedAt == { i \in 1..Len(doc) : doc[i].type = "FencedCode" }
KthFenced(k) ==
  CHOOSE i \in FencedAt : Cardinality({ j \in FencedAt : j <= i }) = k

\* C6: the result holds one entry per top-level fenced block, in document
\* order, the k-th entry being the raw text of the first child of the k-th
\* fenced block; other blocks contribute nothing, and a document without
\* fenced blocks gives the empty sequence.
C6_OneEntryPerFencedBlock ==
  pc = "doc_done" =>
    /\ Len(code_blocks) = Cardinality(FencedAt)
    /\ \A k \in 1..Len(code_blocks) :
         code_blocks[k] = doc[KthFenced(k)].children[1].children
    /\ FencedAt = {} => code_blocks = <<>>

\* A document with two fenced blocks of different texts and an indented code
\* block, extracted.
C6_Witness ==
  /\ pc = "doc_done"
  /\ \E i, j, k \in 1..Len(doc) :
       /\ i < j /\ i # k /\ j # k
       /\ doc[i].type = "FencedCode" /\ doc[j].type = "FencedCode"
       /\ doc[k].type = "CodeBlock"
       /\ doc[i].children[1].children # doc[j].children[1].children
  /\ Len(code_blocks) = 2
  /\ code_blocks[1] # code_blocks[2]

(***************************************************************************)
(* main                                                                    *)
(***************************************************************************)
Modes == {"info", "execute", "generate", "train", "none"}

\* parser.parse_args(): the mode of the mutually exclusive group, --verbose,
\* --uuid and --access-token (None when the flag is absent).
ArgsSet == [mode : Modes, verbose : BOOLEAN,
            uuid : {None, Str("c1"), Str("None")},
            access_token : {None, Str(""), Str("t1"), Str("None")}]
\* os.environ: GPTTRACE_ACCESS_TOKEN and GPTTRACE_CONV_UUID (None when unset).
Environs == [token : {None, Str(""), Str("t2")}, uuid : {None, Str("c2")}]

\* Python's "a or b".
Or(a, b) == IF a # None /\ a # Str("") THEN a ELSE b

\* args.access_token or os.environ.get(ENV_ACCESS_TOKEN, None)
AccessToken(a, env) == Or(a.access_token, env.token)

\* args.uuid or os.environ.get(ENV_UUID, None)
ConvUuid(a, env) == Or(a.uuid, env.uuid)

\* if access_token is None
MissingCredential(token) == token = None

\* The text of the query: args.execute, args.generate.
desc == <<"d", "e", "s", "c">>

InfoPrompt == [kind |-> "literal", text |-> <<"Explain what's eBPF">>]
construct_running_prompt(text)  == [kind |-> "running", text |-> text]
construct_generate_prompt(text) == [kind |-> "generate", text |-> text]
\* f.read() of PROMPTS_DIR/file: the contents stand for the file.
ReadPrompt(file) == [kind |-> "file", text |-> file]

\* print(x): the text and a line end.
println(out, text) == print(out, text \o <<NL>>)

\* pygments.lex on the default lexer options: a leading U+FEFF is dropped,
\* line ends are made "\n", the
\* newlines at both ends are stripped (stripnl) and one is put at the end
\* (ensurenl).
RECURSIVE universal_newlines(_)
universal_newlines(text) ==
  IF text = <<>> THEN <<>>
  ELSE IF Len(text) >= 2 /\ text[1] = CR /\ text[2] = NL
       THEN <<NL>> \o universal_newlines(SubSeq(text, 3, Len(text)))
  ELSE IF text[1] = CR THEN <<NL>> \o universal_newlines(DropFirst(text))
  ELSE <<text[1]>> \o universal_newlines(DropFirst(text))

RECURSIVE strip_newlines(_)
strip_newlines(text) ==
  IF startswith(text, NL) THEN strip_newlines(DropFirst(text))
  ELSE IF endswith(text, NL) THEN strip_newlines(DropLast(text))
  ELSE text

\* A byte order mark at the very start of the text is removed first.
BOM == "U+FEFF"
strip_bom(text) == IF startswith(text, BOM) THEN DropFirst(text) ELSE text

lex(text) ==
  LET t == strip_newlines(universal_newlines(strip_bom(text)))
  IN  IF endswith(t, NL) THEN t ELSE t \o <<NL>>

\* print_formatted_text writes a carriage return before every newline.
RECURSIVE crlf(_)
crlf(text) ==
  IF text = <<>> THEN <<>>
  ELSE IF text[1] = NL THEN <<CR, NL>> \o crlf(DropFirst(text))
  ELSE <<text[1]>> \o crlf(DropFirst(text))

\* pretty_print(input): the lexed text and the line end of
\* print_formatted_text.
pretty_print(out, input) == out \o crlf(lex(input) \o <<NL>>)

TokenMessage == <<"Either provide your access token through -t or through environment variable GPTTRACE_ACCESS_TOKEN">>
SendingQuery(text) == <<"Sending query to ChatGPT: ">> \o text
PressCtrlC == <<"Press Ctrl+C to stop the program....">>
HelpText == <<"usage: GPTtrace">>
\* info = f"Training ChatGPT with ..." and "-" * len(info): the fixed part
\* of info is 24 characters long.
TrainingInfo(file) == <<"Training ChatGPT with ">> \o file
Dashes(file) == [i \in 1..(24 + Len(file)) |-> "-"]
\* f"Trained session: {session}": None is formatted as the text None.
TrainedSession(s) == <<"Trained session: ", IF s = None THEN "None" ELSE s[1]>>
Sudo == <<"s", "u", "d", "o", " ">>

\* The streams the backend answers with in a run of main: none at all, one
\* event whose text starts with a byte order mark, and two events of a
\* backtick-wrapped command.
MainStreams ==
  { <<>>,
    << [message |-> <<BOM, "a">>, conversation_id |-> Str("c1")] >>,
    << [message |-> <<BACKTICK, "a">>, conversation_id |-> Str("c2")],
       [message |-> <<BACKTICK, "a", BACKTICK, NL>>, conversation_id |-> Str("c2")] >> }

\* The loop of generate_result over a whole stream.
RECURSIVE ConsumeAll(_, _, _, _)
ConsumeAll(l, out, events, echo) ==
  IF events = <<>> THEN [l |-> l, out |-> out]
  ELSE LET r == LoopBody(l, out, Head(events), echo)
       IN  ConsumeAll([prev_text |-> r.prev_text, buf |-> r.buf,
                       received_session |-> r.received_session],
                      r.out, Tail(events), echo)

\* generate_result(bot, text, session, print_out) on a stream that ends: the
\* returned pair and stdout.
generate_result(events, session_arg, echo, out) ==
  LET c == ConsumeAll(InitialLocals(session_arg), out, events, echo)
  IN  [text |-> Return(c.l).text, session |-> Return(c.l).session,
       out |-> AfterLoop(c.out, echo)]

\* generate_result on a stream that raises after its events: stdout.
generate_result_raised(events, session_arg, echo, out) ==
  ConsumeAll(InitialLocals(session_arg), out, events, echo).out

\* File names are compared as Python compares strings: by code point.
Ord(c) == CASE c = "0" -> 48 [] c = "1" -> 49 [] c = "2" -> 50
            [] c = "B" -> 66 [] c = "a" -> 97

RECURSIVE LexLess(_, _)
LexLess(x, y) ==
  IF y = <<>> THEN FALSE
  ELSE IF x = <<>> THEN TRUE
  ELSE IF Head(x) = Head(y) THEN LexLess(Tail(x), Tail(y))
  ELSE Ord(Head(x)) < Ord(Head(y))

RECURSIVE Insert(_, _)
Insert(x, sorted) ==
  IF sorted = <<>> THEN <<x>>
  ELSE IF LexLess(x, Head(sorted)) THEN <<x>> \o sorted
  ELSE <<Head(sorted)>> \o Insert(x, Tail(sorted))

\* The list left in the order os.listdir gave it.
sort_omitted(l) == l

\* prompts.sort()
RECURSIVE sort(_)
sort(l) == IF l = <<>> THEN <<>> ELSE Insert(Head(l), sort(Tail(l)))

\* os.listdir(PROMPTS_DIR): the names of the directory in any order.
FileNames == { <<"1", "0">>, <<"2">>, <<"B">>, <<"a">> }
Listings ==
  { l \in SeqsUpTo(FileNames, MaxPrompts) :
      \A i, j \in 1..Len(l) : i # j => l[i] # l[j] }

\* parser.parse(text).children: the parser is a library; any document is a
\* possible parse of a non-empty text.
Parse(text) == IF text = <<>> THEN { <<>> } ELSE Documents

InitMain ==
  /\ pc = "main_start"
  /\ args \in ArgsSet
  /\ environ \in Environs
  /\ access_token = None /\ conv_uuid = None /\ chatbot = FALSE
  /\ session = None /\ listing = <<>> /\ prompts = <<>> /\ next_file = 1
  /\ asks = <<>> /\ shell = <<>> /\ files = <<>>
  /\ stdout = <<>>
  /\ CmdIdle /\ DocIdle /\ GenIdle

\* Lines 69-76 and the choice of the branch.
MainStart ==
  /\ pc = "main_start"
  /\ access_token' = AccessToken(args, environ)
  /\ conv_uuid' = ConvUuid(args, environ)
  /\ IF MissingCredential(access_token')
     THEN /\ stdout' = println(stdout, TokenMessage)
          /\ pc' = "main_exit"
          /\ UNCHANGED chatbot
     ELSE /\ chatbot' = TRUE
          /\ CASE args.mode = "info" ->
                    pc' = "info" /\ UNCHANGED stdout
               [] args.mode \in {"execute", "generate"} ->
                    pc' = args.mode /\ stdout' = println(stdout, SendingQuery(desc))
               [] args.mode = "train" ->
                    pc' = "train" /\ UNCHANGED stdout
               [] args.mode = "none" ->
                    pc' = "main_exit" /\ stdout' = println(stdout, HelpText)
  /\ UNCHANGED <<args, environ, session, listing, prompts, next_file, asks,
                 shell, files, cmdVars, docVars, genVars>>

\* generate_result(chatbot, "Explain what's eBPF", conv_uuid, True)
MainInfo ==
  /\ pc = "info"
  /\ \E events \in MainStreams :
       \/ LET r == generate_result(events, conv_uuid, TRUE, stdout)
          IN  /\ asks' = Append(asks, Ask(InfoPrompt, conv_uuid, FALSE, r.session))
              /\ stdout' = r.out
              /\ pc' = "main_exit"
       \/ /\ asks' = Append(asks, Ask(InfoPrompt, conv_uuid, TRUE, None))
          /\ stdout' = generate_result_raised(events, conv_uuid, TRUE, stdout)
          /\ pc' = "main_raised"
  /\ UNCHANGED <<args, environ, access_token, conv_uuid, chatbot, session,
                 listing, prompts, next_file, shell, files,
                 cmdVars, docVars, genVars>>

\* The execute branch: the exchange, make_executable_command, os.system.
MainExecute ==
  /\ pc = "execute"
  /\ \E events \in MainStreams :
       \/ LET r == generate_result(events, conv_uuid, args.verbose, stdout)
              cmd == make_executable_command(r.text)
          IN  /\ asks' = Append(asks, Ask(construct_running_prompt(desc),
                                          conv_uuid, FALSE, r.session))
              /\ stdout' = println(r.out, PressCtrlC)
              /\ shell' = Append(shell, Sudo \o cmd)
              /\ pc' = "main_exit"
       \/ /\ asks' = Append(asks, Ask(construct_running_prompt(desc),
                                      conv_uuid, TRUE, None))
          /\ stdout' = generate_result_raised(events, conv_uuid, args.verbose, stdout)
          /\ pc' = "main_raised"
          /\ UNCHANGED shell
  /\ UNCHANGED <<args, environ, access_token, conv_uuid, chatbot, session,
                 listing, prompts, next_file, files, cmdVars, docVars, genVars>>

\* The generate branch: the exchange, pretty_print, extract_code_blocks and
\* the writes to generated.bpf.c.
MainGenerate ==
  /\ pc = "generate"
  /\ \E events \in MainStreams :
       \/ LET r == generate_result(events, conv_uuid, FALSE, stdout)
          IN  /\ asks' = Append(asks, Ask(construct_generate_prompt(desc),
                                          conv_uuid, FALSE, r.session))
              /\ stdout' = pretty_print(r.out, r.text)
              /\ \E d \in Parse(r.text) :
                   files' = Append(files, [name |-> "generated.bpf.c",
                                           written |-> extract_code_blocks(d)])
              /\ pc' = "main_exit"
       \/ /\ asks' = Append(asks, Ask(construct_generate_prompt(desc),
                                      conv_uuid, TRUE, None))
          /\ stdout' = generate_result_raised(events, conv_uuid, FALSE, stdout)
          /\ pc' = "main_raised"
          /\ UNCHANGED files
  /\ UNCHANGED <<args, environ, access_token, conv_uuid, chatbot, session,
                 listing, prompts, next_file, shell, cmdVars, docVars, genVars>>

\* prompts = os.listdir(PROMPTS_DIR); prompts.sort(); session = conv_uuid
MainTrainList ==
  /\ pc = "train"
  /\ \E l \in Listings :
       /\ listing' = l
       /\ prompts' = sort(l)
  /\ session' = conv_uuid
  /\ next_file' = 1
  /\ pc' = "train_loop"
  /\ UNCHANGED <<args, environ, access_token, conv_uuid, chatbot, asks,
                 shell, files, stdout, cmdVars, docVars, genVars>>

\* One iteration of "for file in prompts".
MainTrainFile ==
  /\ pc = "train_loop"
  /\ next_file <= Len(prompts)
  /\ LET file == prompts[next_file]
         input_data == ReadPrompt(file)
         out1 == println(println(println(stdout, Dashes(file)),
                                 TrainingInfo(file)), Dashes(file))
         out2 == IF args.verbose THEN println(out1, file) ELSE out1
     IN  \E events \in MainStreams :
           \/ LET r == generate_result(events, conv_uuid, args.verbose, out2)
              IN  /\ asks' = Append(asks, Ask(input_data, conv_uuid, FALSE, r.session))
                  /\ session' = r.session
                  /\ stdout' = r.out
                  /\ next_file' = next_file + 1
                  /\ pc' = "train_loop"
           \/ /\ asks' = Append(asks, Ask(input_data, conv_uuid, TRUE, None))
              /\ stdout' = generate_result_raised(events, conv_uuid, args.verbose, out2)
              /\ pc' = "main_raised"
              /\ UNCHANGED <<session, next_file>>
  /\ UNCHANGED <<args, environ, access_token, conv_uuid, chatbot, listing,
                 prompts, shell, files, cmdVars, docVars, genVars>>

\* The loop is over: print(f"Trained session: {session}")
MainTrainEnd ==
  /\ pc = "train_loop"
  /\ next_file > Len(prompts)
  /\ stdout' = println(stdout, TrainedSession(session))
  /\ pc' = "main_exit"
  /\ UNCHANGED <<mainVars, cmdVars, docVars, genVars>>

NextMain ==
  \/ MainStart
  \/ MainInfo
  \/ MainExecute
  \/ MainGenerate
  \/ MainTrainList
  \/ MainTrainFile
  \/ MainTrainEnd

SpecMain == InitMain /\ [][NextMain]_vars

(***************************************************************************)
(* Properties of main                                                      *)
(***************************************************************************)
\* C1: in train mode started without a session identifier, every exchange
\* after the first is asked in the conversation the previous exchange
\* returned (stated for the exchanges that returned one: a stream without
\* events returns the empty identifier).
C1_TrainContinuesSession ==
  (args.mode = "train" /\ args.uuid = None /\ environ.uuid = None) =>
    \A k \in 2..Len(asks) :
      asks[k - 1].returned # Str("") => asks[k].conversation_id = asks[k - 1].returned

\* C7: without an access token from the flag or the environment (each
\* absent or empty), whatever the mode, main prints the message and exits:
\* no client is constructed, nothing is asked, no command is run and no file
\* is written.
C7_NoTokenNoEffects ==
  (args.access_token \in {None, Str("")} /\ environ.token \in {None, Str("")}) =>
    /\ pc \in {"main_start", "main_exit"}
    /\ ~ chatbot
    /\ asks = <<>> /\ shell = <<>> /\ files = <<>>
    /\ pc = "main_exit" => stdout = TokenMessage \o <<NL>>

\* The name of the listing with exactly k - 1 names before it in code-point
\* order.
KthName(k) ==
  CHOOSE i \in 1..Len(listing) :
    Cardinality({ j \in 1..Len(listing) : LexLess(listing[j], listing[i]) }) = k - 1

\* C9: the backend is asked once in info, execute and generate mode, and once
\* per prompt file, in code-point order of the names, in train mode; a call
\* that raises is the last call, ends main, and no command is run and no file
\* written in that invocation.
C9_SingleAttempt ==
  /\ args.mode \in {"info", "execute", "generate"} =>
       /\ Len(asks) <= 1
       /\ (pc = "main_exit" /\ chatbot) => Len(asks) = 1
  /\ args.mode = "none" => asks = <<>>
  /\ args.mode = "train" =>
       /\ Len(asks) <= Len(listing)
       /\ \A k \in 1..Len(asks) : asks[k].text = ReadPrompt(listing[KthName(k)])
       /\ pc = "main_exit" => Len(asks) = Len(listing)
  /\ \A k \in 1..Len(asks) :
       asks[k].raised =>
         /\ k = Len(asks)
         /\ pc = "main_raised"
         /\ shell = <<>> /\ files = <<>>
  /\ pc = "main_raised" => (asks # <<>> /\ asks[Len(asks)].raised)
  /\ Len(shell) <= 1 /\ Len(files) <= 1

\* Train mode over MaxPrompts files that os.listdir gave out of order: the
\* exchange for the last file raised.
C9_Witness ==
  /\ pc = "main_raised"
  /\ args.mode = "train"
  /\ Len(asks) = MaxPrompts
  /\ Len(listing) = MaxPrompts
  /\ listing # prompts

====
